---------------------------- MODULE Spec2Model ----------------------------
(***************************************************************************)
(* Tic-tac-toe against a minimax machine player (src/main.js).             *)
(*                                                                         *)
(* JavaScript values are tagged records, so that `typeof` and `===` can be *)
(* evaluated on a board whose cells hold either a number (an empty cell    *)
(* holds its own index) or a player's symbol.  The board is the array      *)
(* origBoard: a sequence of nine cells, cell i of the program being        *)
(* element i + 1 of the sequence.                                          *)
(***************************************************************************)
EXTENDS Integers, Sequences, FiniteSets, TLC

(***************************************************************************)
(* JavaScript values                                                       *)
(***************************************************************************)
Num(n) == [type |-> "number", value |-> n]
Str(s) == [type |-> "string", value |-> s]
undefined == [type |-> "undefined"]
null == [type |-> "null"]

\* if (v), for v an object, null or undefined
Truthy(v) == v.type # "null" /\ v.type # "undefined"

(***************************************************************************)
(* Constants of the program                                                *)
(***************************************************************************)
huPlayer == "O"
aiPlayer == "X"
\* mutant: the second diagonal mistyped
winComboTypo ==
  << <<0, 1, 2>>, <<3, 4, 5>>, <<6, 7, 8>>,
     <<0, 3, 6>>, <<1, 4, 7>>, <<2, 5, 8>>,
     <<0, 4, 8>>, <<6, 4, 3>> >>

winCombo ==
  << <<0, 1, 2>>, <<3, 4, 5>>, <<6, 7, 8>>,
     <<0, 3, 6>>, <<1, 4, 7>>, <<2, 5, 8>>,
     <<0, 4, 8>>, <<6, 4, 2>> >>

\* the nine .cell elements, ids 0..8
NumCells == 9
Cells == 0 .. (NumCells - 1)

\* board[i], for an index i of the program
At(board, i) == board[i + 1]

\* board[i] = v
Put(board, i, v) == [board EXCEPT ![i + 1] = v]

\* the cells of a board that hold a number
EmptyCells(board) == {i \in Cells : At(board, i).type = "number"}

(***************************************************************************)
(* checkWin(board, player)                                                 *)
(***************************************************************************)
\* board.reduce((a, e, i) => (e === player ? a.concat(i) : a), []): the
\* indices the player holds.  The array is only ever asked indexOf(elem) > -1,
\* so it is kept as the set of its elements.
Plays(board, player) ==
  LET mark == Str(player) IN {i \in Cells : board[i + 1] = mark}

\* the cells of each line of winCombo
winCells ==
  [w \in DOMAIN winCombo |-> {winCombo[w][k] : k \in DOMAIN winCombo[w]}]

\* mutant: some() where the code has every()
EverySome(w, plays) == winCells[w] \cap plays # {}

\* winCombo[w].every((elem) => plays.indexOf(elem) > -1), w counted from 1
Every(w, plays) == winCells[w] \subseteq plays

\* mutant: the loop without its break, which reports the last line won
checkWinNoBreak(board, player) ==
  LET plays == Plays(board, player)
      won == {w \in 1 .. Len(winCombo) : winCells[w] \subseteq plays}
  IN  IF won # {}
      THEN [type |-> "object",
            index |-> (CHOOSE w \in won : \A j \in won : j <= w) - 1,
            player |-> player]
      ELSE null

\* the loop over winCombo.entries(), left by break at the first line won;
\* index is the line's 0-based position in winCombo
checkWin(board, player) ==
  LET plays == Plays(board, player)
  IN  IF \E w \in 1 .. Len(winCombo) : Every(w, plays)
      THEN [type |-> "object",
            index |-> (CHOOSE w \in 1 .. Len(winCombo) :
                         /\ Every(w, plays)
                         /\ \A j \in 1 .. (w - 1) : ~Every(j, plays)) - 1,
            player |-> player]
      ELSE null

(***************************************************************************)
(* emptySquares()                                                          *)
(***************************************************************************)
\* mutant: a filter on the cell's truthiness as well, which drops the number 0
emptySquaresFalsy(board) ==
  SelectSeq(board, LAMBDA s : s.type = "number" /\ s.value # 0)

\* board.filter((s) => typeof s == 'number'): the cells that hold a number,
\* in array order
emptySquaresOf(board) == SelectSeq(board, LAMBDA s : s.type = "number")

(***************************************************************************)
(* minimax(board, player): the search bestSpot takes the machine's move    *)
(* from.  root is the player the outermost call was made for.              *)
(***************************************************************************)
Players == {huPlayer, aiPlayer}

Other(player) == IF player = huPlayer THEN aiPlayer ELSE huPlayer

\* the selection loop: a candidate replaces the best one so far only when its
\* score is strictly better (greater on a maximizing ply, less on a minimizing
\* one), so the first of equally good candidates is kept
RECURSIVE PickBest(_, _, _, _)
PickBest(moves, maximizing, i, bestMove) ==
  IF i > Len(moves) THEN bestMove
  ELSE IF (IF maximizing THEN moves[i].score > moves[bestMove].score
                         ELSE moves[i].score < moves[bestMove].score)
       THEN PickBest(moves, maximizing, i + 1, i)
       ELSE PickBest(moves, maximizing, i + 1, bestMove)

\* the calls made for a frame's children, each counted with its own
RECURSIVE SumCalls(_, _)
SumCalls(moves, i) ==
  IF i > Len(moves) THEN 0 ELSE moves[i].calls + SumCalls(moves, i + 1)

\* the terminal base cases, seen from root: the score, or null when the
\* position is not terminal
Terminal(board, availSpots, root) ==
  IF checkWin(board, Other(root)).type = "object" THEN Num(-10)
  ELSE IF checkWin(board, root).type = "object" THEN Num(10)
  ELSE IF Len(availSpots) = 0 THEN Num(0)
  ELSE null

RECURSIVE minimax(_, _, _), TryMoves(_, _, _, _, _, _)
\* the loop over the empty cells, in the order emptySquares gives them: place
\* the player's symbol, search for the opponent, record (index, score)
TryMoves(newBoard, player, root, availSpots, i, moves) ==
  IF i > Len(availSpots) THEN moves
  ELSE LET spot == availSpots[i]
           result == minimax([newBoard EXCEPT ![spot.value + 1] = Str(player)],
                             Other(player), root)
       IN  TryMoves(newBoard, player, root, availSpots, i + 1,
                    Append(moves, [index |-> spot, score |-> result.score,
                                   calls |-> result.calls]))

\* the result is (score, index), index undefined for a moveless result; calls
\* counts the calls of minimax made for it, this one included
minimax(newBoard, player, root) ==
  LET availSpots == emptySquaresOf(newBoard)
      terminal == Terminal(newBoard, availSpots, root)
  IN  IF terminal.type = "number"
      THEN [score |-> terminal.value, index |-> undefined, calls |-> 1]
      ELSE LET moves == TryMoves(newBoard, player, root, availSpots, 1, << >>)
               bestMove == PickBest(moves, player = root, 2, 1)
           IN  [score |-> moves[bestMove].score,
                index |-> moves[bestMove].index,
                calls |-> 1 + SumCalls(moves, 1)]

\* mutant: the first empty cell, without any search
bestSpotFirst(board) == emptySquaresOf(board)[1]

\* bestSpot(), on the board it reads
bestSpotOf(board) == minimax(board, aiPlayer, aiPlayer).index

(***************************************************************************)
(* State                                                                   *)
(***************************************************************************)
VARIABLES
  origBoard,   \* the game board
  listening,   \* the cells' click listeners are attached
  endgame,     \* the text of .endgame, "" while it is not displayed
  notified,    \* sendWinNotificationEmail has been called
  uncaught,    \* a handler ended in an uncaught TypeError
  found,       \* the last call of a function made on its own, with its result
  stack,       \* the frames of a running search, the outermost first
  selfPlay     \* every symbol on the board was placed where minimax said

vars ==
  << origBoard, listening, endgame, notified, uncaught, found, stack, selfPlay >>

game == << origBoard, listening, endgame, notified, uncaught >>

\* no call made yet
none == [op |-> "none"]

\* the program's state as one value, for the handlers' sequential steps
Now ==
  [origBoard |-> origBoard, listening |-> listening, endgame |-> endgame,
   notified |-> notified, uncaught |-> uncaught]

Becomes(s) ==
  /\ origBoard' = s.origBoard
  /\ listening' = s.listening
  /\ endgame' = s.endgame
  /\ notified' = s.notified
  /\ uncaught' = s.uncaught

(***************************************************************************)
(* The game loop                                                           *)
(***************************************************************************)
\* declareWinner(who)
declareWinner(s, who) == [s EXCEPT !.endgame = who]

\* mutant: gameOver without the loop that removes the click listeners
gameOverNoRemove(s, gameWon) ==
  LET s1 == [s EXCEPT !.notified = @ \/ gameWon.player = huPlayer]
  IN  declareWinner(s1, IF gameWon.player = huPlayer THEN "You win!" ELSE "You lose.")

\* gameOver(gameWon): the later of the file's two definitions is the one in
\* force; it removes the click listeners, mails on a human win and declares
gameOver(s, gameWon) ==
  LET s1 == [s EXCEPT !.listening = FALSE,
                      !.notified = @ \/ gameWon.player = huPlayer]
  IN  declareWinner(s1, IF gameWon.player = huPlayer THEN "You win!" ELSE "You lose.")

\* turn(squareId, player).  With squareId undefined the assignment sets the
\* array's property "undefined", no cell, and getElementById(undefined) is
\* null: setting its innerText throws, and the handler ends there.
turn(s, squareId, player) ==
  IF squareId.type # "number"
  THEN [s EXCEPT !.uncaught = TRUE]
  ELSE LET s1 == [s EXCEPT !.origBoard = Put(@, squareId.value, Str(player))]
           gameWon == checkWin(s1.origBoard, player)
       IN  IF Truthy(gameWon) THEN gameOver(s1, gameWon) ELSE s1

\* checkTie(): its return value, and the state it leaves
checkTie(s) ==
  IF Len(emptySquaresOf(s.origBoard)) = 0
  THEN [ret |-> TRUE,
        state |-> declareWinner([s EXCEPT !.listening = FALSE], "Tie Game!")]
  ELSE [ret |-> FALSE, state |-> s]

\* mutant: the handler without its test of the clicked cell
turnClickOnNoGate(s, id) ==
  LET s1 == turn(s, Num(id), huPlayer)
      tie == checkTie(s1)
  IN  IF tie.ret THEN tie.state
      ELSE turn(tie.state, bestSpotOf(tie.state.origBoard), aiPlayer)

\* turnClick(square), for a click on the cell with id `id`
turnClickOn(s, id) ==
  IF At(s.origBoard, id).type = "number"
  THEN LET s1 == turn(s, Num(id), huPlayer)
           tie == checkTie(s1)
       IN  IF tie.ret THEN tie.state
           ELSE turn(tie.state, bestSpotOf(tie.state.origBoard), aiPlayer)
  ELSE s

turnClick(id) ==
  /\ listening
  /\ ~uncaught
  /\ Becomes(turnClickOn(Now, id))
  /\ selfPlay' = FALSE
  /\ UNCHANGED << found, stack >>

\* startGame(): every cell holds its index, the listeners are attached
Init ==
  /\ origBoard = [k \in 1 .. NumCells |-> Num(k - 1)]
  /\ listening = TRUE
  /\ endgame = ""
  /\ notified = FALSE
  /\ uncaught = FALSE
  /\ found = none
  /\ stack = << >>
  /\ selfPlay = TRUE

Next == \E id \in Cells : turnClick(id)

Spec == Init /\ [][Next]_vars

(***************************************************************************)
(* checkWin on every board: each cell empty (holding its index), 'O' or    *)
(* 'X', whether or not play can produce the board                          *)
(***************************************************************************)
CellValues(i) == {Num(i), Str(huPlayer), Str(aiPlayer)}

AllBoards ==
  {<<c0, c1, c2>> \o <<c3, c4, c5>> \o <<c6, c7, c8>> :
     c0 \in CellValues(0), c1 \in CellValues(1), c2 \in CellValues(2),
     c3 \in CellValues(3), c4 \in CellValues(4), c5 \in CellValues(5),
     c6 \in CellValues(6), c7 \in CellValues(7), c8 \in CellValues(8)}

\* both players' checkWin on one board
Classify(board) ==
  /\ found' = [op |-> "checkWin", board |-> board,
               O |-> checkWin(board, huPlayer),
               X |-> checkWin(board, aiPlayer)]
  /\ UNCHANGED << game, stack, selfPlay >>

CheckNext == found = none /\ \E board \in AllBoards : Classify(board)

CheckSpec == Init /\ [][CheckNext]_vars

(***************************************************************************)
(* Play move by move: the two placements of turnClick as steps of their    *)
(* own, the machine's cell left open instead of taken from bestSpot        *)
(***************************************************************************)
Count(board, player) == Cardinality(Plays(board, player))

\* Human moves first, and the two alternate
ToMove(board) ==
  IF Count(board, huPlayer) = Count(board, aiPlayer) THEN huPlayer ELSE aiPlayer

\* a click on an empty cell: turn(id, huPlayer), then checkTie()
HumanTurn(id) ==
  /\ stack = << >>
  /\ listening
  /\ ToMove(origBoard) = huPlayer
  /\ At(origBoard, id).type = "number"
  /\ Becomes(checkTie(turn(Now, Num(id), huPlayer)).state)
  /\ found' = none
  /\ selfPlay' = FALSE
  /\ UNCHANGED stack

\* the reply of the same handler, made unless checkTie() returned true
MachineTurn(id) ==
  /\ stack = << >>
  /\ ToMove(origBoard) = aiPlayer
  /\ endgame # "Tie Game!"
  /\ At(origBoard, id).type = "number"
  /\ Becomes(turn(Now, Num(id), aiPlayer))
  /\ found' = none
  /\ selfPlay' = FALSE
  /\ UNCHANGED stack

Play == \E id \in Cells : HumanTurn(id) \/ MachineTurn(id)

\* the reply as the handler makes it: turn(bestSpot(), aiPlayer)
BestSpotTurn ==
  /\ stack = << >>
  /\ ~uncaught
  /\ ToMove(origBoard) = aiPlayer
  /\ endgame # "Tie Game!"
  /\ LET id == bestSpotOf(origBoard)
     IN  /\ Becomes(turn(Now, id, aiPlayer))
         /\ found' = [op |-> "bestSpot", board |-> origBoard, index |-> id]
  /\ selfPlay' = FALSE
  /\ UNCHANGED stack

\* the click handler in its two steps
HandlerNext == (\E id \in Cells : HumanTurn(id)) \/ BestSpotTurn

HandlerSpec == Init /\ [][HandlerNext]_vars

(***************************************************************************)
(* The search step by step, on the board it shares with the game: one      *)
(* frame per call of minimax                                               *)
(***************************************************************************)
\* the most empty cells of a board on which the search is run step by step
MaxSearchEmpty == 3

\* a call's frame as the call begins: the terminal cases return at once
Enter(board, player, root) ==
  LET availSpots == emptySquaresOf(board)
      terminal == Terminal(board, availSpots, root)
  IN  [player |-> player, availSpots |-> availSpots, i |-> 1, moves |-> << >>,
       returns |-> terminal.type = "number",
       result |-> [score |-> IF terminal.type = "number" THEN terminal.value ELSE 0,
                   index |-> undefined]]

Top == stack[Len(stack)]
Root == stack[1].player

\* minimax(origBoard, player) is called
Call(player) ==
  /\ stack = << >>
  /\ Len(emptySquaresOf(origBoard)) <= MaxSearchEmpty
  /\ stack' = << Enter(origBoard, player, player) >>
  /\ found' = [op |-> "minimax", board |-> origBoard, player |-> player,
               returned |-> FALSE, calls |-> 1,
               result |-> [score |-> 0, index |-> undefined]]
  /\ UNCHANGED << game, selfPlay >>

\* mutant: the search is called for the opponent with nothing placed
DescendNoPlace ==
  /\ stack # << >>
  /\ ~Top.returns
  /\ Top.i <= Len(Top.availSpots)
  /\ stack' = Append(stack, Enter(origBoard, Other(Top.player), Root))
  /\ found' = [found EXCEPT !.calls = @ + 1]
  /\ UNCHANGED << game, selfPlay >>

\* the loop's next empty cell: the player's symbol is placed there and the
\* search is called for the opponent
Descend ==
  /\ stack # << >>
  /\ ~Top.returns
  /\ Top.i <= Len(Top.availSpots)
  /\ LET spot == Top.availSpots[Top.i]
     IN  /\ origBoard' = Put(origBoard, spot.value, Str(Top.player))
         /\ stack' = Append(stack, Enter(origBoard', Other(Top.player), Root))
  /\ found' = [found EXCEPT !.calls = @ + 1]
  /\ UNCHANGED << listening, endgame, notified, uncaught, selfPlay >>

\* mutant: the call returns and the placement is left on the board
ReturnNoRevert ==
  /\ Len(stack) > 1
  /\ Top.returns
  /\ LET parent == stack[Len(stack) - 1]
         spot == parent.availSpots[parent.i]
     IN  stack' = [SubSeq(stack, 1, Len(stack) - 1) EXCEPT
                     ![Len(stack) - 1] =
                       [parent EXCEPT !.i = @ + 1,
                                      !.moves = Append(@, [index |-> spot,
                                                           score |-> Top.result.score])]]
  /\ UNCHANGED << game, found, selfPlay >>

\* the call returns to the loop: (index, score) is recorded and the placement
\* is reverted before the next cell is tried
Return ==
  /\ Len(stack) > 1
  /\ Top.returns
  /\ LET parent == stack[Len(stack) - 1]
         spot == parent.availSpots[parent.i]
     IN  /\ origBoard' = Put(origBoard, spot.value, spot)
         /\ stack' = [SubSeq(stack, 1, Len(stack) - 1) EXCEPT
                        ![Len(stack) - 1] =
                          [parent EXCEPT !.i = @ + 1,
                                         !.moves = Append(@, [index |-> spot,
                                                              score |-> Top.result.score])]]
  /\ UNCHANGED << listening, endgame, notified, uncaught, found, selfPlay >>

\* every empty cell has been tried: the best candidate is the call's result
Select ==
  /\ stack # << >>
  /\ ~Top.returns
  /\ Top.i > Len(Top.availSpots)
  /\ LET bestMove == PickBest(Top.moves, Top.player = Root, 2, 1)
     IN  stack' = [stack EXCEPT ![Len(stack)] =
                     [Top EXCEPT !.returns = TRUE,
                                 !.result = [score |-> Top.moves[bestMove].score,
                                             index |-> Top.moves[bestMove].index]]]
  /\ UNCHANGED << game, found, selfPlay >>

\* the outermost call returns to its caller
Finish ==
  /\ Len(stack) = 1
  /\ Top.returns
  /\ found' = [found EXCEPT !.returned = TRUE, !.result = Top.result]
  /\ stack' = << >>
  /\ UNCHANGED << game, selfPlay >>

Step == Descend \/ Return \/ Select \/ Finish

SearchNext == Play \/ (\E player \in Players : Call(player)) \/ Step

SearchSpec == Init /\ [][SearchNext]_vars

\* a call of minimax runs to completion: nothing else runs until it returns
SearchFairSpec == SearchSpec /\ WF_vars(Step)

(***************************************************************************)
(* The search as one call, on boards reached by play                       *)
(***************************************************************************)
\* the most empty cells of a board reached by play on which the search is
\* called for either player
MaxProbeEmpty == 6

\* minimax(origBoard, player) is called on a board with an empty cell and
\* returns; the board it leaves is the board it was called on
Search(player, most) ==
  /\ stack = << >>
  /\ found = none
  /\ EmptyCells(origBoard) # {}
  /\ Cardinality(EmptyCells(origBoard)) <= most
  /\ found' = [op |-> "search", board |-> origBoard, player |-> player,
               result |-> minimax(origBoard, player, player)]
  /\ UNCHANGED << game, stack, selfPlay >>

PlayNext == Play \/ \E player \in Players : Search(player, MaxProbeEmpty)

PlaySpec == Init /\ [][PlayNext]_vars

\* the most empty cells of a board reached by other play on which the
\* search takes the game over
MaxTakeOverEmpty == 4

(***************************************************************************)
(* The search for the machine's opening move                               *)
(***************************************************************************)
\* minimax(origBoard, aiPlayer) is called on the board no one has played on
MachineOpening ==
  /\ EmptyCells(origBoard) = Cells
  /\ Search(aiPlayer, NumCells)

OpeningNext ==
  \/ Play
  \/ \E player \in Players : Search(player, MaxTakeOverEmpty)
  \/ MachineOpening

OpeningSpec == Init /\ [][OpeningNext]_vars

(***************************************************************************)
(* The search against itself: each side's move is the one minimax returns  *)
(* when called for that side                                               *)
(***************************************************************************)
\* a line on the board ends the game, as does a full board
Won(board) ==
  checkWin(board, huPlayer).type = "object" \/ checkWin(board, aiPlayer).type = "object"

\* the side to move calls minimax for itself; from the empty board on, the
\* game of the search against itself is followed to its end
EngineSearch ==
  /\ stack = << >>
  /\ found = none
  /\ selfPlay
  /\ EmptyCells(origBoard) # {}
  /\ ~Won(origBoard)
  /\ found' = [op |-> "search", board |-> origBoard, player |-> ToMove(origBoard),
               result |-> minimax(origBoard, ToMove(origBoard), ToMove(origBoard))]
  /\ UNCHANGED << game, stack, selfPlay >>

\* the side to move places its symbol on the cell its search returned
EngineMove ==
  /\ stack = << >>
  /\ found.op = "search"
  /\ found.board = origBoard
  /\ found.player = ToMove(origBoard)
  /\ found.result.index.type = "number"
  /\ ~Won(origBoard)
  /\ origBoard' = Put(origBoard, found.result.index.value, Str(found.player))
  /\ found' = none
  /\ UNCHANGED << listening, endgame, notified, uncaught, stack, selfPlay >>

SelfPlayNext ==
  \/ Play
  \/ \E player \in Players : Search(player, MaxTakeOverEmpty)
  \/ EngineSearch
  \/ EngineMove

SelfPlaySpec == Init /\ [][SelfPlayNext]_vars

(***************************************************************************)
(* Properties of checkWin                                                  *)
(***************************************************************************)
\* the lines of winCombo a player holds on a board, read off the cells
LinesHeld(board, player) ==
  {w \in 1 .. Len(winCombo) :
     \A k \in 1 .. Len(winCombo[w]) : At(board, winCombo[w][k]) = Str(player)}

\* C9: checkWin(board, player) is non-null iff the player holds all three
\* cells of at least one line of winCombo, on full and on partly filled
\* boards alike, and the index it reports is the first such line's
WinDetection ==
  found.op = "checkWin" =>
    \A player \in Players :
      LET held == LinesHeld(found.board, player)
          gameWon == found[player]
      IN  IF held = {}
          THEN gameWon = null
          ELSE /\ gameWon.type = "object"
               /\ gameWon.player = player
               /\ gameWon.index + 1 \in held
               /\ \A w \in held : gameWon.index + 1 <= w

\* C9 witness: a board with one cell still empty on which Human holds two
\* lines, the column 0,3,6 and the diagonal 6,4,2, and the first is reported
WinDetectionWitness ==
  /\ found.op = "checkWin"
  /\ Len(emptySquaresOf(found.board)) = 1
  /\ LinesHeld(found.board, huPlayer) = {4, 8}
  /\ found.O.type = "object"
  /\ found.O.index = 3
  /\ found.X = null

\* the three rows, the three columns and the two diagonals of the 3x3 board
BoardLines ==
  {{3 * r, 3 * r + 1, 3 * r + 2} : r \in 0 .. 2}
    \cup {{c, c + 3, c + 6} : c \in 0 .. 2}
    \cup {{0, 4, 8}, {2, 4, 6}}

HasLine(board, player) ==
  \E line \in BoardLines : \A i \in line : At(board, i) = Str(player)

IsFull(board) == \A i \in Cells : At(board, i).type = "string"

\* the outcomes that hold of a classified board: Human wins and Machine wins
\* as checkWin decides them, Tie as a full board without a line for either
Outcomes(f) ==
  (IF f.O.type = "object" THEN {"Human wins"} ELSE {})
    \cup (IF f.X.type = "object" THEN {"Machine wins"} ELSE {})
    \cup (IF /\ IsFull(f.board)
             /\ ~HasLine(f.board, huPlayer)
             /\ ~HasLine(f.board, aiPlayer)
          THEN {"Tie"} ELSE {})

\* C7 as stated: on every full board, whatever the assignment of symbols to
\* its nine cells, exactly one of Human wins, Machine wins, Tie holds
ExactlyOneOutcome ==
  (found.op = "checkWin" /\ IsFull(found.board)) =>
    Cardinality(Outcomes(found)) = 1

\* C7 amended: on every full board at least one outcome holds, and exactly
\* one unless both players hold a line, when Human wins and Machine wins
\* hold together and Tie does not
OneOutcomeUnlessBothWin ==
  (found.op = "checkWin" /\ IsFull(found.board)) =>
    IF HasLine(found.board, huPlayer) /\ HasLine(found.board, aiPlayer)
    THEN Outcomes(found) = {"Human wins", "Machine wins"}
    ELSE Cardinality(Outcomes(found)) = 1

\* C7 witness: a full board without a line, classified a tie and nothing else
OneOutcomeWitness ==
  /\ found.op = "checkWin"
  /\ IsFull(found.board)
  /\ Outcomes(found) = {"Tie"}

(***************************************************************************)
(* Properties of the game loop                                             *)
(***************************************************************************)
\* C8: between click handlers a tie stands declared ('Tie Game!' is the
\* text announced) exactly when the board is full and neither Human nor
\* Machine holds a line; a full board with a line is never declared a tie
TieDeclaration ==
  (endgame = "Tie Game!") <=>
    (/\ IsFull(origBoard)
     /\ ~HasLine(origBoard, huPlayer)
     /\ ~HasLine(origBoard, aiPlayer))

\* C8 witness: a game played to a full board, declared a tie by checkTie
TieDeclarationWitness ==
  /\ endgame = "Tie Game!"
  /\ ~listening
  /\ IsFull(origBoard)

(***************************************************************************)
(* Properties of the search, step by step                                  *)
(***************************************************************************)
\* the placements made by the calls that wait for a callee to return
Pending == {k \in 1 .. (Len(stack) - 1) : TRUE}
PendingCell(k) == stack[k].availSpots[stack[k].i].value

\* C1: the board after minimax returns is cell for cell the board before the
\* call, and while it runs the board differs from it exactly by the
\* placements of the calls still waiting: every other one has been reverted
BoardRestoration ==
  found.op = "minimax" =>
    /\ found.returned => origBoard = found.board
    /\ \A i \in Cells :
         At(origBoard, i) =
           IF \E k \in Pending : PendingCell(k) = i
           THEN Str(stack[CHOOSE k \in Pending : PendingCell(k) = i].player)
           ELSE At(found.board, i)

\* C1 witness: a search of a board with three empty cells has returned
\* after trying and reverting placements, and the board is as it was
BoardRestorationWitness ==
  /\ found.op = "minimax"
  /\ found.returned
  /\ found.calls > 3
  /\ Cardinality(EmptyCells(found.board)) = 3
  /\ origBoard = found.board

Max(S) == CHOOSE x \in S : \A y \in S : y <= x
Min(S) == CHOOSE x \in S : \A y \in S : x <= y

\* C4: when a call on a non-terminal board returns, every empty cell has been
\* a candidate, the score returned is the greatest of the candidates' scores
\* on a maximizing ply and the least on a minimizing one, and the index
\* returned is the lowest among the cells with that score
TieBreak ==
  (stack # << >> /\ Top.returns /\ EmptyCells(origBoard) # {}
     /\ ~HasLine(origBoard, huPlayer) /\ ~HasLine(origBoard, aiPlayer)) =>
    LET moves == Top.moves
        scores == {moves[k].score : k \in 1 .. Len(moves)}
        best == IF Top.player = Root THEN Max(scores) ELSE Min(scores)
    IN  /\ {moves[k].index.value : k \in 1 .. Len(moves)} = EmptyCells(origBoard)
        /\ Top.result.score = best
        /\ Top.result.index.type = "number"
        /\ Top.result.index.value =
             Min({moves[k].index.value : k \in {j \in 1 .. Len(moves) : moves[j].score = best}})

\* C4 witness: a call returns with two candidates of the best score, and its
\* index is the lower one of the two, not the first cell tried
TieBreakWitness ==
  /\ stack # << >>
  /\ Top.returns
  /\ Top.player = Root
  /\ Len(Top.moves) = 3
  /\ Top.moves[1].score < Top.moves[2].score
  /\ Top.moves[2].score = Top.moves[3].score
  /\ Top.result.index = Top.moves[2].index

RECURSIVE Ascending(_)
Ascending(S) ==
  IF S = {} THEN << >> ELSE << Num(Min(S)) >> \o Ascending(S \ {Min(S)})

\* C10: in every state of play and of a running search, emptySquares() is
\* the indices of the cells that hold neither 'O' nor 'X', each once and in
\* ascending order: a cell that is empty holds its own index
EmptyCellEnumeration ==
  emptySquaresOf(origBoard) =
    Ascending({i \in Cells : At(origBoard, i) \notin {Str(huPlayer), Str(aiPlayer)}})

\* C10 witness: inside a recursive call, after a placement has been
\* reverted, with cell 0 among the empty ones
EmptyCellEnumerationWitness ==
  /\ Len(stack) = 2
  /\ stack[1].i > 1
  /\ Len(emptySquaresOf(origBoard)) = 2
  /\ emptySquaresOf(origBoard)[1] = Num(0)

\* the empty cells a call found on the board as it began
EmptyAtEntry(k) == Len(stack[k].availSpots)

\* C5: each recursive call is made on a board with one empty cell fewer than
\* its caller's, the recursion is never deeper than the empty cells of the
\* board minimax was called on, at most 9, and every call of minimax returns
SearchTerminates ==
  /\ [](/\ \A k \in 2 .. Len(stack) : EmptyAtEntry(k) = EmptyAtEntry(k - 1) - 1
        /\ stack # << >> =>
             /\ EmptyAtEntry(1) = Cardinality(EmptyCells(found.board))
             /\ Len(stack) - 1 <= EmptyAtEntry(1)
             /\ EmptyAtEntry(1) <= NumCells)
  /\ (stack # << >>) ~> (stack = << >> /\ found.op = "minimax" /\ found.returned)

\* C5 witness: the recursion as deep as the board has empty cells
SearchTerminatesWitness ==
  /\ stack # << >>
  /\ EmptyAtEntry(1) = MaxSearchEmpty
  /\ Len(stack) - 1 = EmptyAtEntry(1)

(***************************************************************************)
(* Properties of the search as one call                                    *)
(***************************************************************************)
\* the reference evaluator: the outcome for root, 10 for a win, 0 for a tie
\* and -10 for a loss, when player is to move and both sides play their
\* best, found by trying every line of play on the board's eight lines
RECURSIVE Value(_, _, _)
Value(board, player, root) ==
  IF HasLine(board, Other(root)) THEN -10
  ELSE IF HasLine(board, root) THEN 10
  ELSE IF IsFull(board) THEN 0
  ELSE LET values == {Value(Put(board, i, Str(player)), Other(player), root) :
                        i \in EmptyCells(board)}
       IN  IF player = root THEN Max(values) ELSE Min(values)

\* Human in two opposite corners, Machine in the centre
CornersBoard ==
  << Str(huPlayer), Num(1), Num(2), Num(3), Str(aiPlayer), Num(5), Num(6), Num(7),
     Str(huPlayer) >>

\* the board after the move a search returned
After(f) == Put(f.board, f.result.index.value, Str(f.player))

\* C2: on a board reached by play that has no line and an empty cell, for
\* either player to move, the score minimax returns is the reference
\* evaluator's value, one of -10, 0 and 10, and the move it returns is an
\* empty cell after which the position has that value with the opponent to
\* move; on the corners board with Machine to move Human cannot win after it
Optimality ==
  (found.op = "search"
     /\ ~HasLine(found.board, huPlayer) /\ ~HasLine(found.board, aiPlayer)) =>
    /\ found.result.score \in {-10, 0, 10}
    /\ found.result.score = Value(found.board, found.player, found.player)
    /\ found.result.index.type = "number"
    /\ found.result.index.value \in EmptyCells(found.board)
    /\ Value(After(found), Other(found.player), found.player) = found.result.score
    /\ (found.board = CornersBoard /\ found.player = aiPlayer) =>
         Value(After(found), huPlayer, huPlayer) <= 0

\* C2 witness: the search for Machine on the corners board returns the edge
\* cell 1 with the score of a tie
OptimalityWitness ==
  /\ found.op = "search"
  /\ found.board = CornersBoard
  /\ found.player = aiPlayer
  /\ found.result.index = Num(1)
  /\ found.result.score = 0

\* C3: in the game the search plays against itself from the empty board no
\* player ever holds a line, and while the board has an empty cell the search
\* of the side to move returns an empty cell to play: the game goes on until
\* the board is full, and ends a tie
NoLoss ==
  selfPlay =>
    /\ ~HasLine(origBoard, huPlayer)
    /\ ~HasLine(origBoard, aiPlayer)
    /\ (found.op = "search" /\ found.player = ToMove(origBoard)) =>
         /\ found.result.index.type = "number"
         /\ found.result.index.value \in EmptyCells(origBoard)

\* C3 witness: the game of the search against itself has filled the board
\* and neither player holds a line
NoLossWitness ==
  /\ selfPlay
  /\ IsFull(origBoard)
  /\ ~HasLine(origBoard, huPlayer)
  /\ ~HasLine(origBoard, aiPlayer)

RECURSIVE Factorial(_)
Factorial(n) == IF n = 0 THEN 1 ELSE n * Factorial(n - 1)

\* the recursive calls one call of minimax made: all but the call itself
RecursiveCalls(f) == f.result.calls - 1

\* C6 as stated: one call of minimax makes at most 9! = 362880 recursive calls
CallCountWithinFactorial ==
  found.op = "search" => RecursiveCalls(found) <= Factorial(NumCells)

\* C6: one call of minimax makes at most 549945 recursive calls, and makes
\* that many on the empty board
CallCountBound ==
  found.op = "search" =>
    /\ RecursiveCalls(found) <= 549945
    /\ EmptyCells(found.board) = Cells => RecursiveCalls(found) = 549945

\* C6 witness: the search on the empty board has returned, with more than 9!
\* recursive calls made
CallCountWitness ==
  /\ found.op = "search"
  /\ EmptyCells(found.board) = Cells
  /\ RecursiveCalls(found) > Factorial(NumCells)

(***************************************************************************)
(* Properties of the search on terminal boards                             *)
(***************************************************************************)
\* a board on which the search has nothing to try
TerminalBoard(board) ==
  HasLine(board, huPlayer) \/ HasLine(board, aiPlayer) \/ IsFull(board)

\* C11: minimax called on a board where the other player holds a line
\* returns -10, otherwise where the player it was called for holds a line
\* 10, otherwise on a full board 0, each time without a move; the call
\* places nothing on the board and makes no recursive call
TerminalCases ==
  (found.op = "minimax" /\ TerminalBoard(found.board)) =>
    /\ found.calls = 1
    /\ Len(stack) <= 1
    /\ origBoard = found.board
    /\ found.returned =>
         /\ found.result.index = undefined
         /\ found.result.score =
              IF HasLine(found.board, Other(found.player)) THEN -10
              ELSE IF HasLine(found.board, found.player) THEN 10
              ELSE 0

\* C11 witness: both players hold a line, and the call made for Machine
\* has returned -10 without a move
TerminalCasesWitness ==
  /\ found.op = "minimax"
  /\ found.returned
  /\ HasLine(found.board, huPlayer)
  /\ HasLine(found.board, aiPlayer)
  /\ found.player = aiPlayer
  /\ found.result.score = -10
  /\ found.result.index = undefined

(***************************************************************************)
(* Scenarios of the search                                                 *)
(***************************************************************************)
\* Machine in cells 0 and 1, Human in cells 3 and 4
TopRowBoard ==
  << Str(aiPlayer), Str(aiPlayer), Num(2), Str(huPlayer), Str(huPlayer), Num(5),
     Num(6), Num(7), Num(8) >>

\* the player completes a line by filling one empty cell of the board
CanWinAtOnce(board, player) ==
  \E i \in EmptyCells(board) : HasLine(Put(board, i, Str(player)), player)

\* C12: on a board without a line on which the player to move completes a
\* line with one placement, minimax returns the score 10; on the top row
\* board with Machine to move it returns cell 2
ImmediateWin ==
  (found.op = "search"
     /\ ~HasLine(found.board, huPlayer) /\ ~HasLine(found.board, aiPlayer)
     /\ CanWinAtOnce(found.board, found.player)) =>
    /\ found.result.score = 10
    /\ (found.board = TopRowBoard /\ found.player = aiPlayer) =>
         found.result.index = Num(2)

\* C12 witness: the search for Machine on the top row board has returned
\* cell 2 with the score 10
ImmediateWinWitness ==
  /\ found.op = "search"
  /\ found.board = TopRowBoard
  /\ found.player = aiPlayer
  /\ found.result.index = Num(2)
  /\ found.result.score = 10

\* the corners and the centre of the board
CornersAndCentre == {0, 2, 4, 6, 8}

\* C13: minimax called for Machine on the empty board returns the score 0;
\* each of the nine first moves has the value 0, so the move returned is the
\* first cell in ascending order, cell 0, a corner
EmptyBoardValue ==
  (found.op = "search" /\ EmptyCells(found.board) = Cells
     /\ found.player = aiPlayer) =>
    /\ found.result.score = 0
    /\ \A i \in Cells :
         Value(Put(found.board, i, Str(aiPlayer)), huPlayer, aiPlayer) = 0
    /\ found.result.index = Num(0)
    /\ found.result.index.value \in CornersAndCentre

\* C13 witness: the search for Machine on the empty board has returned the
\* score 0 and a move
EmptyBoardValueWitness ==
  /\ found.op = "search"
  /\ EmptyCells(found.board) = Cells
  /\ found.player = aiPlayer
  /\ found.result.score = 0
  /\ found.result.index.type = "number"

(***************************************************************************)
(* Properties of the click handler                                         *)
(***************************************************************************)
\* the cells that hold a player's symbol
Occupied(board) ==
  {i \in Cells : At(board, i) \in {Str(huPlayer), Str(aiPlayer)}}

\* C14: in every state of a game, turnClick for a click on a cell that holds
\* 'O' or 'X' leaves the state as it is: the board unchanged, no move of the
\* machine, no winner and no tie declared
InputGate ==
  \A id \in Occupied(origBoard) : turnClickOn(Now, id) = Now

\* C14 witness: a game in progress with cells of both players to click on,
\* and the handler run on one of each leaves the state as it is
InputGateWitness ==
  /\ listening
  /\ endgame = ""
  /\ \E id \in Cells : At(origBoard, id) = Str(huPlayer) /\ turnClickOn(Now, id) = Now
  /\ \E id \in Cells : At(origBoard, id) = Str(aiPlayer) /\ turnClickOn(Now, id) = Now

\* C15: whenever the handler is about to call bestSpot the board has an
\* empty cell and no player holds a line; the index bestSpot returns is a
\* number that names a cell empty at the call, the machine's symbol goes
\* there, and no placement is made on an undefined cell
SearchPrecondition ==
  /\ ~uncaught
  /\ (ToMove(origBoard) = aiPlayer /\ endgame # "Tie Game!") =>
       /\ EmptyCells(origBoard) # {}
       /\ ~HasLine(origBoard, huPlayer)
       /\ ~HasLine(origBoard, aiPlayer)
  /\ found.op = "bestSpot" =>
       /\ found.index.type = "number"
       /\ found.index.value \in EmptyCells(found.board)
       /\ origBoard = Put(found.board, found.index.value, Str(aiPlayer))

\* C15 witness: bestSpot was called with two cells empty and the machine
\* has placed its symbol on the one returned
SearchPreconditionWitness ==
  /\ found.op = "bestSpot"
  /\ Cardinality(EmptyCells(found.board)) = 2
  /\ found.index.type = "number"
  /\ At(origBoard, found.index.value) = Str(aiPlayer)

\* C16: in every state of a game, between handlers and inside one, checkWin
\* finds no line for Human: gameOver is never called with Human as the
\* winner, 'You win!' is never declared and the notification is never sent
HumanNeverWins ==
  /\ checkWin(origBoard, huPlayer) = null
  /\ endgame # "You win!"
  /\ ~notified

\* C16 witness: Human was one placement from a line on a board with cells
\* left, and the game stands lost without a notification sent
HumanNeverWinsWitness ==
  /\ endgame = "You lose."
  /\ checkWin(origBoard, huPlayer) = null
  /\ ~notified
  /\ CanWinAtOnce(origBoard, huPlayer)

\* C17: once a win or a tie is declared, and once the listeners are removed,
\* no step changes a cell of the board: no click is handled any more, and
\* the handler that made the declaration places nothing after it
GameOverAbsorbing ==
  [][(endgame # "" \/ ~listening) => origBoard' = origBoard]_vars

\* C17 witness: a game declared lost, the listeners removed, with empty
\* cells left on the board
GameOverAbsorbingWitness ==
  /\ endgame = "You lose."
  /\ ~listening
  /\ Cardinality(EmptyCells(origBoard)) >= 2

\* C18: between click handlers the board holds as many 'O' as 'X', or one
\* 'O' more on a full board; each click handled adds one 'O' and at most one
\* 'X', and a cell that holds 'O' or 'X' keeps it
TurnAlternation ==
  /\ [](\/ Count(origBoard, huPlayer) = Count(origBoard, aiPlayer)
        \/ /\ Count(origBoard, huPlayer) = Count(origBoard, aiPlayer) + 1
           /\ IsFull(origBoard))
  /\ [][/\ Count(origBoard', huPlayer) = Count(origBoard, huPlayer) + 1
        /\ Count(origBoard', aiPlayer) - Count(origBoard, aiPlayer) \in {0, 1}
        /\ \A i \in Occupied(origBoard) : At(origBoard', i) = At(origBoard, i)]_vars

\* C18 witness: three clicks handled and answered, the game in progress
TurnAlternationWitness ==
  /\ listening
  /\ Count(origBoard, huPlayer) = 3
  /\ Count(origBoard, aiPlayer) = 3

=============================================================================
